---- MODULE Spec2Model ----
(***************************************************************************)
(* A model of the notebook eye-color-and-23andme-data.ipynb: the cells run *)
(* top to bottom (Run All), an uncaught exception ends the run.            *)
(*                                                                         *)
(* Text is modelled character by character: a line of the personal file is *)
(* a sequence of characters, where the characters of an identifier, of a   *)
(* number or of a genotype are grouped into one atom (a string).  A Python *)
(* str value is a TLA+ string; a Python value that may be None is a        *)
(* sequence of length at most one (<<>> is None).  A dict is the sequence  *)
(* of its (key, value) pairs in insertion order.                           *)
(***************************************************************************)
EXTENDS Naturals, Sequences, FiniteSets

VARIABLES
    pc,                      \* the statement the run is at
    exc,                     \* the uncaught exception that ended the run, or "none"
    out,                     \* what print() has written, one tuple per call
    user,                    \* user['data'] as returned by the member exchange
    gets,                    \* the requests.get calls made so far, in order
    resp,                    \* what each requests.get came back with, in order
    file_url_23andme,        \* <<>> while the local name is not bound
    file_23andme,            \* the lines of the temporary file
    pos,                     \* the file iterator: lines already read
    snps,
    your_genotype,           \* <<>> while not bound
    opensnp,                 \* the parsed reference datasets, by name
    eyecolor_by_uid,
    rs_by_uid,               \* the three *_by_uid dicts, by identifier
    joint_uids,
    jpos,                    \* the loop over joint_uids: uids already joined
    genotypes_to_color,
    color_counts,
    cpos,                    \* the loop over the bucket: colors already tallied
    color_count_sum,
    color_count_percentages

vars == <<pc, exc, out, user, gets, resp, file_url_23andme, file_23andme, pos,
          snps, your_genotype, opensnp, eyecolor_by_uid, rs_by_uid, joint_uids,
          jpos, genotypes_to_color, color_counts, cpos, color_count_sum,
          color_count_percentages>>

-----------------------------------------------------------------------------
(* Python values *)

None == <<>>
Some(v) == <<v>>

\* (variant: the absent value formatted as it is displayed)
Format_AsShown(v) == IF v = None THEN "Unknown" ELSE v[1]

\* '{}'.format(v): str(None) is 'None', a str is itself
Format(v) == IF v = None THEN "None" ELSE v[1]

\* truth value of an optional str: None and '' are false
Truthy(v) == v # None /\ v[1] # ""

\* dicts as insertion-ordered sequences of <<key, value>>
DictKeys(d) == {d[n][1] : n \in 1..Len(d)}
DictHas(d, key) == key \in DictKeys(d)
DictGet(d, key) == d[CHOOSE n \in 1..Len(d) : d[n][1] = key][2]
DictSet(d, key, val) ==
    IF DictHas(d, key)
    THEN [n \in 1..Len(d) |-> IF d[n][1] = key THEN <<key, val>> ELSE d[n]]
    ELSE Append(d, <<key, val>>)

-----------------------------------------------------------------------------
(* Cell 1: the personal file *)

Raise(e) == pc' = "error" /\ exc' = e

Qualifies(entry) == entry.source = "direct-sharing-128" /\ "vcf" \notin entry.tags

\* lines 55-58: the download_url of the first qualifying entry; None stands for
\* the name file_url_23andme left unbound
FindUrl(data) ==
    IF \E n \in 1..Len(data) : Qualifies(data[n])
    THEN Some(data[CHOOSE n \in 1..Len(data) :
                      Qualifies(data[n]) /\ \A m \in 1..(n - 1) : ~Qualifies(data[m])
                  ].download_url)
    ELSE None

SorryMessage == <<"Sorry, you first need to add 23andMe data to Open Humans!">>
GreatMessage == <<"Great, you have 23andMe data in Open Humans! We'll retrieve this...">>

(* What requests.get may come back with: conn "refused" is a raised            *)
(* ConnectionError; otherwise a Response with its status, its body as lines    *)
(* (.content) and what .json() makes of it, None when the body is not JSON.    *)
(* The responses of the model are given further down, with the other inputs.   *)

\* lines 52-64
Cell1_Find ==
    /\ pc = "cell1"
    /\ file_url_23andme' = FindUrl(user)
    /\ out' = out \o <<<<"Checking for 23andMe data in Open Humans...">>,
                       IF FindUrl(user) = None THEN SorryMessage ELSE GreatMessage>>
    /\ pc' = "cell1_get"
    /\ UNCHANGED <<exc, user, gets, resp, file_23andme, pos, snps, your_genotype,
                   opensnp, eyecolor_by_uid, rs_by_uid, joint_uids, jpos,
                   genotypes_to_color, color_counts, cpos, color_count_sum,
                   color_count_percentages>>

\* lines 66-70, the answer r being what the network gives
Cell1_GetWith(r) ==
    /\ pc = "cell1_get"
    /\ IF file_url_23andme = None
       THEN \* the name is looked up before requests.get is called
            /\ Raise("NameError")
            /\ UNCHANGED <<out, gets, resp, file_23andme>>
       ELSE /\ gets' = Append(gets, file_url_23andme[1])
            /\ resp' = Append(resp, <<"personal", [conn |-> r.conn, status |-> r.status,
                                                is_json |-> r.json # None]>>)
            /\ IF r.conn = "refused"
               THEN Raise("ConnectionError") /\ UNCHANGED <<out, file_23andme>>
               ELSE /\ file_23andme' = r.lines
                    /\ out' = Append(out, <<"Done!">>)
                    /\ pc' = "cell3"
                    /\ UNCHANGED exc
    /\ UNCHANGED <<user, file_url_23andme, pos, snps, your_genotype, opensnp,
                   eyecolor_by_uid, rs_by_uid, joint_uids, jpos, genotypes_to_color,
                   color_counts, cpos, color_count_sum, color_count_percentages>>

-----------------------------------------------------------------------------
(* Cell 3: the Genotype Extractor *)

TAB == "\t"
NL == "\n"
SP == " "
HASH == "#"
BADBYTE == "\\xff"           \* a byte that is not valid UTF-8

rs12913832 == "rs12913832"
rs16891982 == "rs16891982"
rs12203592 == "rs12203592"

Targets == {rs12913832, rs16891982, rs12203592}

\* the keys of snps, in the order of the dict literal
SnpKeys == <<rs12913832, rs16891982, rs12203592>>
InitialSnps == <<<<rs12913832, None>>, <<rs16891982, None>>, <<rs12203592, None>>>>

IsSpace(c) == c \in {SP, TAB, NL}

RECURSIVE LStrip(_)
LStrip(s) == IF s # <<>> /\ IsSpace(Head(s)) THEN LStrip(Tail(s)) ELSE s

RECURSIVE RStrip(_)
RStrip(s) ==
    IF s # <<>> /\ IsSpace(s[Len(s)]) THEN RStrip(SubSeq(s, 1, Len(s) - 1)) ELSE s

\* str.strip(): leading and trailing whitespace removed
StripBoth(s) == RStrip(LStrip(s))

\* bytes.decode('utf-8') raises UnicodeDecodeError on an invalid byte
Decodable(s) == \A n \in 1..Len(s) : s[n] # BADBYTE

StartsWithHash(s) == s # <<>> /\ Head(s) = HASH

\* str.split(sep): the fields between the separators, '' included
RECURSIVE SplitFrom(_, _, _, _)
SplitFrom(s, sep, n, cur) ==
    IF n > Len(s) THEN <<cur>>
    ELSE IF s[n] = sep THEN <<cur>> \o SplitFrom(s, sep, n + 1, "")
    ELSE SplitFrom(s, sep, n + 1, cur \o s[n])

Split(s, sep) == SplitFrom(s, sep, 1, "")

\* (variant: lstrip('#') before the test, so a commented-out record is read)
LineStep_Uncomment(d, raw) ==
    LET line == StripBoth(raw)
        body == IF StartsWithHash(line) THEN Tail(line) ELSE line
        line_data == Split(body, TAB)
    IN IF ~Decodable(raw) THEN [exc |-> "UnicodeDecodeError", snps |-> d]
       ELSE IF DictHas(d, line_data[1]) /\ Len(line_data) >= 4
            THEN [exc |-> "none", snps |-> DictSet(d, line_data[1], Some(line_data[4]))]
            ELSE [exc |-> "none", snps |-> d]

\* (variant: a value once found is kept, the first occurrence wins)
LineStep_FirstWins(d, raw) ==
    LET line == StripBoth(raw)
        line_data == Split(line, TAB)
    IN IF ~Decodable(raw) THEN [exc |-> "UnicodeDecodeError", snps |-> d]
       ELSE IF StartsWithHash(line) \/ ~DictHas(d, line_data[1])
            THEN [exc |-> "none", snps |-> d]
       ELSE IF Len(line_data) < 4 THEN [exc |-> "IndexError", snps |-> d]
       ELSE IF DictGet(d, line_data[1]) # None THEN [exc |-> "none", snps |-> d]
       ELSE [exc |-> "none", snps |-> DictSet(d, line_data[1], Some(line_data[4]))]

\* The body of the line loop applied to one raw line: the new snps, or the
\* exception the line raises.
LineStep(d, raw) ==
    IF ~Decodable(raw) THEN [exc |-> "UnicodeDecodeError", snps |-> d]
    ELSE LET line == StripBoth(raw) IN
         IF StartsWithHash(line) THEN [exc |-> "none", snps |-> d]
         ELSE LET line_data == Split(line, TAB) IN
              IF DictHas(d, line_data[1])
              THEN IF Len(line_data) < 4
                   THEN [exc |-> "IndexError", snps |-> d]
                   ELSE [exc |-> "none",
                         snps |-> DictSet(d, line_data[1], Some(line_data[4]))]
              ELSE [exc |-> "none", snps |-> d]

\* the value print() shows for one snp
Shown(d, snp) == IF Truthy(DictGet(d, snp)) THEN Format(DictGet(d, snp)) ELSE "Unknown"

\* (variant: the tuple taken in the order of the keys of snps)
GenotypeTuple_DictOrder(d) ==
    <<Format(DictGet(d, rs12913832)), Format(DictGet(d, rs16891982)),
      Format(DictGet(d, rs12203592))>>

GenotypeTuple(d) ==
    <<Format(DictGet(d, rs12203592)), Format(DictGet(d, rs12913832)),
      Format(DictGet(d, rs16891982))>>

\* The line loop run to its end, or to the first exception, on lines[n..].
RECURSIVE RunLines(_, _, _)
RunLines(d, lines, n) ==
    IF n > Len(lines) THEN [exc |-> "none", snps |-> d]
    ELSE LET r == LineStep(d, lines[n]) IN
         IF r.exc # "none" THEN r ELSE RunLines(r.snps, lines, n + 1)

Cell3_Start ==
    /\ pc = "cell3"
    /\ snps' = InitialSnps
    /\ pos' = 0
    /\ pc' = "cell3_loop"
    /\ UNCHANGED <<exc, out, user, gets, resp, file_url_23andme, file_23andme,
                   your_genotype, opensnp, eyecolor_by_uid, rs_by_uid, joint_uids,
                   jpos, genotypes_to_color, color_counts, cpos, color_count_sum,
                   color_count_percentages>>

Cell3_Line ==
    /\ pc = "cell3_loop"
    /\ pos < Len(file_23andme)
    /\ LET r == LineStep(snps, file_23andme[pos + 1]) IN
         /\ pos' = pos + 1
         /\ snps' = r.snps
         /\ IF r.exc = "none" THEN UNCHANGED <<pc, exc>> ELSE Raise(r.exc)
    /\ UNCHANGED <<out, user, gets, resp, file_url_23andme, file_23andme,
                   your_genotype, opensnp, eyecolor_by_uid, rs_by_uid, joint_uids,
                   jpos, genotypes_to_color, color_counts, cpos, color_count_sum,
                   color_count_percentages>>

Cell3_Finish ==
    /\ pc = "cell3_loop"
    /\ pos = Len(file_23andme)
    /\ out' = out \o [n \in 1..Len(SnpKeys) |-> <<SnpKeys[n], Shown(snps, SnpKeys[n])>>]
    /\ your_genotype' = GenotypeTuple(snps)
    /\ pc' = "cell5"
    /\ UNCHANGED <<exc, user, gets, resp, file_url_23andme, file_23andme, pos, snps,
                   opensnp, eyecolor_by_uid, rs_by_uid, joint_uids, jpos,
                   genotypes_to_color, color_counts, cpos, color_count_sum,
                   color_count_percentages>>

-----------------------------------------------------------------------------
(* Cell 5: the Reference Dataset Loader *)

\* the four datasets in the order of lines 140-143
FetchOrder == <<"eyecolors", rs12203592, rs12913832, rs16891982>>

\* one of the four statements name = requests.get(url).json(), the answer r being
\* what the network gives
Cell5_GetWith(r) ==
    /\ pc = "cell5"
    /\ LET name == FetchOrder[Len(opensnp) + 1] IN
         /\ gets' = Append(gets, name)
         /\ resp' = Append(resp, <<name, [conn |-> r.conn, status |-> r.status,
                                          is_json |-> r.json # None]>>)
         /\ IF r.conn = "refused"
            THEN Raise("ConnectionError") /\ UNCHANGED opensnp
            ELSE IF r.json = None
            THEN Raise("JSONDecodeError") /\ UNCHANGED opensnp
            ELSE /\ opensnp' = Append(opensnp, <<name, r.json[1]>>)
                 /\ pc' = IF Len(opensnp) + 1 = Len(FetchOrder) THEN "cell7" ELSE "cell5"
                 /\ UNCHANGED exc
    /\ UNCHANGED <<out, user, file_url_23andme, file_23andme, pos, snps, your_genotype,
                   eyecolor_by_uid, rs_by_uid, joint_uids, jpos, genotypes_to_color,
                   color_counts, cpos, color_count_sum, color_count_percentages>>

-----------------------------------------------------------------------------
(* Cell 7: the Genotype Index Builder *)

(* A parsed JSON document is [shape, items]: shape "users" is an object with a *)
(* 'users' array of {user_id, variation}; shape "list" is an array of          *)
(* {user: {id, genotypes}} given as [id, genotypes], genotypes being the       *)
(* local_genotype strings; shape "error" is an object such as {"error": ...}.  *)

\* the datasets in the order cell 7 reads them, which is the order of the tuple
RsOrder == <<rs12203592, rs12913832, rs16891982>>

\* str.lower() on the labels of the model
Lower(label) ==
    CASE label = "Brown" -> "brown"
      [] label = "BLUE" -> "blue"
      [] OTHER -> label

\* {item['user_id']: item['variation'].lower() for item in users}
RECURSIVE EyeByUid(_, _)
EyeByUid(d, items) ==
    IF items = <<>> THEN d
    ELSE EyeByUid(DictSet(d, Head(items).user_id, Lower(Head(items).variation)), Tail(items))

\* (variant: a subject with no genotype observation is kept, with None)
RECURSIVE GenoByUid_KeepEmpty(_, _)
GenoByUid_KeepEmpty(d, items) ==
    IF items = <<>> THEN d
    ELSE GenoByUid_KeepEmpty(
             DictSet(d, Head(items).id,
                     IF Head(items).genotypes # <<>> THEN Some(Head(items).genotypes[1])
                     ELSE None),
             Tail(items))

\* {item['user']['id']: item['user']['genotypes'][0]['local_genotype']
\*  for item in dataset if item['user']['genotypes']}
RECURSIVE GenoByUid(_, _)
GenoByUid(d, items) ==
    IF items = <<>> THEN d
    ELSE IF Head(items).genotypes # <<>>
         THEN GenoByUid(DictSet(d, Head(items).id, Some(Head(items).genotypes[1])), Tail(items))
         ELSE GenoByUid(d, Tail(items))

\* [uid for uid in eyecolor_by_uid.keys() if uid in ... and uid in ... and uid in ...]
RECURSIVE JointUids(_, _, _)
JointUids(eye, rs, n) ==
    IF n > Len(eye) THEN <<>>
    ELSE IF \A k \in 1..3 : DictHas(rs[k], eye[n][1])
         THEN <<eye[n][1]>> \o JointUids(eye, rs, n + 1)
         ELSE JointUids(eye, rs, n + 1)

\* the body of the join loop
JoinStep(index, eye, rs, uid) ==
    LET genotype == <<Format(DictGet(rs[1], uid)), Format(DictGet(rs[2], uid)),
                      Format(DictGet(rs[3], uid))>>
    IN IF DictHas(index, genotype)
       THEN DictSet(index, genotype, Append(DictGet(index, genotype), DictGet(eye, uid)))
       ELSE DictSet(index, genotype, <<DictGet(eye, uid)>>)

\* the first of the three genotype datasets that is not an array, 4 if none
FirstBadRs == 
    IF \E k \in 1..3 : DictGet(opensnp, RsOrder[k]).shape # "list"
    THEN CHOOSE k \in 1..3 : /\ DictGet(opensnp, RsOrder[k]).shape # "list"
                             /\ \A m \in 1..(k - 1) : DictGet(opensnp, RsOrder[m]).shape = "list"
    ELSE 4

\* lines 161-172: the four dicts, joint_uids and the empty index
Cell7_Maps ==
    /\ pc = "cell7"
    /\ IF DictGet(opensnp, "eyecolors").shape # "users"
       THEN \* opensnp_eyecolors['users'] on an object without that key
            /\ Raise("KeyError")
            /\ UNCHANGED <<eyecolor_by_uid, rs_by_uid, joint_uids, genotypes_to_color>>
       ELSE LET eye == EyeByUid(<<>>, DictGet(opensnp, "eyecolors").items)
                rs == [k \in 1..(FirstBadRs - 1) |-> GenoByUid(<<>>, DictGet(opensnp, RsOrder[k]).items)]
            IN /\ eyecolor_by_uid' = eye
               /\ rs_by_uid' = rs
               /\ IF FirstBadRs <= 3
                  THEN \* item['user'] on a key of an object, a str
                       /\ Raise("TypeError")
                       /\ UNCHANGED <<joint_uids, genotypes_to_color>>
                  ELSE /\ joint_uids' = JointUids(eye, rs, 1)
                       /\ genotypes_to_color' = <<>>
                       /\ pc' = IF JointUids(eye, rs, 1) = <<>> THEN "cell8" ELSE "cell7_loop"
                       /\ UNCHANGED exc
    /\ jpos' = 0
    /\ UNCHANGED <<out, user, gets, resp, file_url_23andme, file_23andme, pos, snps,
                   your_genotype, opensnp, color_counts, cpos, color_count_sum,
                   color_count_percentages>>

\* lines 173-180: one pass of the loop over joint_uids
Cell7_Join ==
    /\ pc = "cell7_loop"
    /\ jpos < Len(joint_uids)
    /\ genotypes_to_color' =
           JoinStep(genotypes_to_color, eyecolor_by_uid, rs_by_uid, joint_uids[jpos + 1])
    /\ jpos' = jpos + 1
    /\ pc' = IF jpos + 1 = Len(joint_uids) THEN "cell8" ELSE "cell7_loop"
    /\ UNCHANGED <<exc, out, user, gets, resp, file_url_23andme, file_23andme, pos,
                   snps, your_genotype, opensnp, eyecolor_by_uid, rs_by_uid, joint_uids,
                   color_counts, cpos, color_count_sum, color_count_percentages>>

-----------------------------------------------------------------------------
(* Cell 8: the Distribution Reporter *)

\* (variant: a repeated color is set to 1 again instead of counted)
Tally_Reset(counts, color) == DictSet(counts, color, 1)

\* the body of the tally loop
Tally(counts, color) ==
    IF DictHas(counts, color)
    THEN DictSet(counts, color, DictGet(counts, color) + 1)
    ELSE DictSet(counts, color, 1)

\* item placed after every item whose count is at least its own
RECURSIVE InsertDesc(_, _)
InsertDesc(sorted, item) ==
    IF sorted = <<>> THEN <<item>>
    ELSE IF Head(sorted)[2] >= item[2] THEN <<Head(sorted)>> \o InsertDesc(Tail(sorted), item)
    ELSE <<item>> \o sorted

\* item placed after every item whose count is at most its own
RECURSIVE InsertAsc(_, _)
InsertAsc(sorted, item) ==
    IF sorted = <<>> THEN <<item>>
    ELSE IF Head(sorted)[2] <= item[2] THEN <<Head(sorted)>> \o InsertAsc(Tail(sorted), item)
    ELSE <<item>> \o sorted

RECURSIVE SortedAsc(_)
SortedAsc(items) ==
    IF items = <<>> THEN <<>>
    ELSE InsertAsc(SortedAsc(SubSeq(items, 1, Len(items) - 1)), items[Len(items)])

Reversed(items) == [n \in 1..Len(items) |-> items[Len(items) + 1 - n]]

\* (variant: sorted(items, key=count)[::-1], which turns ties around)
SortedByCountDesc_Reversed(items) == Reversed(SortedAsc(items))

\* sorted(items, key=lambda x: x[1], reverse=True): a stable sort, items of equal
\* count keep their order
RECURSIVE SortedByCountDesc(_)
SortedByCountDesc(items) ==
    IF items = <<>> THEN <<>>
    ELSE InsertDesc(SortedByCountDesc(SubSeq(items, 1, Len(items) - 1)), items[Len(items)])

RECURSIVE SumCounts(_)
SumCounts(items) == IF items = <<>> THEN 0 ELSE Head(items)[2] + SumCounts(Tail(items))

\* count / total: the quotient is kept exact, as <<numerator, denominator>>
Share(count, total) == <<count, total>>

\* '{0:.0f}'.format(share * 100): the nearest integer, a tie to the even one
Percent(share) ==
    LET q == (100 * share[1]) \div share[2]
        r == (100 * share[1]) % share[2]
    IN IF 2 * r < share[2] THEN q
       ELSE IF 2 * r > share[2] THEN q + 1
       ELSE IF q % 2 = 0 THEN q ELSE q + 1

Cell8_Start ==
    /\ pc = "cell8"
    /\ color_counts' = <<>>
    /\ cpos' = 0
    /\ IF DictHas(genotypes_to_color, your_genotype)
       THEN pc' = "cell8_loop" /\ UNCHANGED exc
       ELSE Raise("KeyError")
    /\ UNCHANGED <<out, user, gets, resp, file_url_23andme, file_23andme, pos, snps,
                   your_genotype, opensnp, eyecolor_by_uid, rs_by_uid, joint_uids,
                   jpos, genotypes_to_color, color_count_sum, color_count_percentages>>

Cell8_Tally ==
    /\ pc = "cell8_loop"
    /\ cpos < Len(DictGet(genotypes_to_color, your_genotype))
    /\ color_counts' = Tally(color_counts, DictGet(genotypes_to_color, your_genotype)[cpos + 1])
    /\ cpos' = cpos + 1
    /\ UNCHANGED <<pc, exc, out, user, gets, resp, file_url_23andme, file_23andme, pos,
                   snps, your_genotype, opensnp, eyecolor_by_uid, rs_by_uid, joint_uids,
                   jpos, genotypes_to_color, color_count_sum, color_count_percentages>>

Cell8_Report ==
    /\ pc = "cell8_loop"
    /\ cpos = Len(DictGet(genotypes_to_color, your_genotype))
    /\ LET sorted == SortedByCountDesc(color_counts)
           total == SumCounts(sorted)
           shares == [n \in 1..Len(sorted) |-> <<sorted[n][1], Share(sorted[n][2], total)>>]
       IN /\ color_counts' = sorted
          /\ color_count_sum' = total
          /\ color_count_percentages' = shares
          /\ out' = out \o <<<<"Out of", total>>>>
                        \o [n \in 1..Len(shares) |-> <<Percent(shares[n][2]), shares[n][1]>>]
    /\ pc' = "done"
    /\ UNCHANGED <<exc, user, gets, resp, file_url_23andme, file_23andme, pos, snps,
                   your_genotype, opensnp, eyecolor_by_uid, rs_by_uid, joint_uids,
                   jpos, genotypes_to_color, cpos>>

-----------------------------------------------------------------------------
(* Personal files the extractor is checked on *)

MaxLines == 4

Genos == {"AG", "GG"}

Record(id, g) == <<id, TAB, "15", TAB, "1234", TAB, g, NL>>

RecordLines == {Record(id, g) : id \in {rs12913832, rs16891982, rs12203592}, g \in Genos}

OtherLines ==
    { Record("rs4477212", "AG"),                 \* a record of no interest
      <<HASH>> \o Record(rs12913832, "CC"),      \* a comment that names a target
      <<SP, HASH, SP, "comment", NL>>,           \* a comment after leading blanks
      <<rs12203592, TAB, "6", NL>>,              \* a truncated record
      <<BADBYTE, NL>> }                          \* not UTF-8

Lines == RecordLines \cup OtherLines

Files == UNION {[1..n -> Lines] : n \in 0..MaxLines}

EnvUnset ==
    /\ user = <<>>
    /\ gets = <<>>
    /\ resp = <<>>
    /\ file_url_23andme = None

ExtractorUnset ==
    /\ file_23andme = <<>>
    /\ pos = 0
    /\ snps = <<>>
    /\ your_genotype = None

IndexUnset ==
    /\ opensnp = <<>>
    /\ eyecolor_by_uid = <<>>
    /\ rs_by_uid = <<>>
    /\ joint_uids = <<>>
    /\ jpos = 0
    /\ genotypes_to_color = <<>>

ReportUnset ==
    /\ color_counts = <<>>
    /\ cpos = 0
    /\ color_count_sum = 0
    /\ color_count_percentages = <<>>

\* Cell 3 is about to run on a personal file that cell 1 has written.
InitExtract ==
    /\ pc = "cell3"
    /\ exc = "none"
    /\ out = <<>>
    /\ EnvUnset
    /\ file_23andme \in Files
    /\ pos = 0
    /\ snps = <<>>
    /\ your_genotype = None
    /\ IndexUnset
    /\ ReportUnset

NextExtract == Cell3_Start \/ Cell3_Line \/ Cell3_Finish

SpecExtract == InitExtract /\ [][NextExtract]_vars

-----------------------------------------------------------------------------
(* Indexes the reporter is checked on *)

MaxBucket == 4

Labels == {"brown", "blue", "green"}

Buckets == UNION {[1..n -> Labels] : n \in 1..MaxBucket}

KeyA == <<"CC", "AG", "GG">>
KeyB == <<"CC", "GG", "GG">>
KeyNone == <<"CC", "None", "GG">>

\* Cell 8 is about to run: the index holds one bucket or two, and the caller's
\* tuple is a key of it or is not.
InitReport ==
    /\ pc = "cell8"
    /\ exc = "none"
    /\ out = <<>>
    /\ EnvUnset
    /\ file_23andme = <<>>
    /\ pos = 0
    /\ snps = <<>>
    /\ your_genotype \in {KeyA, KeyB, KeyNone}
    /\ opensnp = <<>>
    /\ eyecolor_by_uid = <<>>
    /\ rs_by_uid = <<>>
    /\ joint_uids = <<>>
    /\ jpos = 0
    /\ \E b \in Buckets :
          genotypes_to_color \in {<<<<KeyA, b>>>>, <<<<KeyB, <<"blue">>>>, <<KeyA, b>>>>}
    /\ ReportUnset

NextReport == Cell8_Start \/ Cell8_Tally \/ Cell8_Report

SpecReport == InitReport /\ [][NextReport]_vars

-----------------------------------------------------------------------------
(* Reference datasets the index builder is checked on *)

MaxEye == 2

EyeRecords == {[user_id |-> 1, variation |-> "Brown"], [user_id |-> 2, variation |-> "blue"],
               [user_id |-> 2, variation |-> "BLUE"]}

EyeDatasets == UNION {[1..n -> EyeRecords] : n \in 0..MaxEye}

\* what a genotype dataset may hold for one subject: nothing, a record with no
\* observation, or a record with the observations gs
SubjectRecords(u, lists) ==
    {<<>>} \cup {<<[id |-> u, genotypes |-> gs]>> : gs \in lists \cup {<<>>}}

\* the datasets made of at most one record of each subject, plus one in which
\* subject 1 has a second record
RsDatasets(lists1, lists2) ==
    {a \o b : a \in SubjectRecords(1, lists1), b \in SubjectRecords(2, lists2)}
    \cup {<<[id |-> 1, genotypes |-> <<"GG">>], [id |-> 1, genotypes |-> <<>>]>>}

JsonUsers(items) == [shape |-> "users", items |-> items]
JsonList(items) == [shape |-> "list", items |-> items]

\* Cell 7 is about to run on four datasets that cell 5 has fetched and parsed.
InitIndex ==
    /\ pc = "cell7"
    /\ exc = "none"
    /\ out = <<>>
    /\ EnvUnset
    /\ ExtractorUnset
    /\ \E e \in EyeDatasets,
          a \in RsDatasets({<<"CC">>}, {<<"CC">>}),
          b \in RsDatasets({<<"AG">>}, {<<"AG", "GG">>, <<"GG">>}),
          c \in RsDatasets({<<"GG">>}, {<<"GG">>}) :
          opensnp = <<<<"eyecolors", JsonUsers(e)>>, <<rs12203592, JsonList(a)>>,
                      <<rs12913832, JsonList(b)>>, <<rs16891982, JsonList(c)>>>>
    /\ eyecolor_by_uid = <<>>
    /\ rs_by_uid = <<>>
    /\ joint_uids = <<>>
    /\ jpos = 0
    /\ genotypes_to_color = <<>>
    /\ ReportUnset

NextIndex == Cell7_Maps \/ Cell7_Join

SpecIndex == InitIndex /\ [][NextIndex]_vars

-----------------------------------------------------------------------------
(* The whole run *)

MaxEntries == 2

Entries ==
    { [source |-> "direct-sharing-128", tags |-> {"23andMe"}, download_url |-> "url_23andme"],
      [source |-> "direct-sharing-128", tags |-> {"23andMe", "vcf"}, download_url |-> "url_vcf"],
      [source |-> "direct-sharing-131", tags |-> {}, download_url |-> "url_other"] }

UserData == UNION {[1..n -> Entries] : n \in 0..MaxEntries}

Refused == [conn |-> "refused", status |-> 0, lines |-> <<>>, json |-> None]
Text(status, lines) == [conn |-> "ok", status |-> status, lines |-> lines, json |-> None]
Json(status, doc) == [conn |-> "ok", status |-> status, lines |-> <<>>, json |-> Some(doc)]

\* the three records in the order of the notebook's output, after a comment
FileComplete ==
    << <<HASH, "comment", NL>>, Record(rs12913832, "AG"), Record(rs16891982, "GG"),
       Record(rs12203592, "CC") >>

\* no record of rs12913832
FileMissingOne == << Record(rs16891982, "GG"), Record(rs12203592, "CC") >>

\* a download cut off in the record of rs12203592
FileTruncated == << Record(rs12913832, "AG"), <<rs12203592, TAB, "6">> >>

ErrorPage == << <<"<html>", SP, "404", SP, "Not", SP, "Found", NL>> >>

PersonalResponses ==
    {Text(200, f) : f \in {FileComplete, FileMissingOne, FileTruncated}}
    \cup {Text(404, ErrorPage), Refused}

EyeDataset ==
    <<[user_id |-> 42, variation |-> "Brown"], [user_id |-> 7, variation |-> "blue"],
      [user_id |-> 8, variation |-> "BLUE"]>>

\* subject 42 has CC, AG, GG; subjects 7 and 8 have CC, GG, GG
RsDataset(name) ==
    CASE name = rs12203592 ->
             <<[id |-> 42, genotypes |-> <<"CC">>], [id |-> 7, genotypes |-> <<"CC">>],
               [id |-> 8, genotypes |-> <<"CC", "CT">>]>>
      [] name = rs12913832 ->
             <<[id |-> 42, genotypes |-> <<"AG">>], [id |-> 7, genotypes |-> <<"GG">>],
               [id |-> 8, genotypes |-> <<"GG">>]>>
      [] name = rs16891982 ->
             <<[id |-> 42, genotypes |-> <<"GG">>], [id |-> 7, genotypes |-> <<"GG">>],
               [id |-> 8, genotypes |-> <<"GG">>]>>

ErrorDoc == [shape |-> "error", items |-> <<>>]

ReferenceResponses(name) ==
    { IF name = "eyecolors" THEN Json(200, JsonUsers(EyeDataset))
                            ELSE Json(200, JsonList(RsDataset(name))),
      IF name = "eyecolors" THEN Json(200, JsonUsers(<<>>)) ELSE Json(200, JsonList(<<>>)),
      Json(500, ErrorDoc),
      Text(404, ErrorPage),
      Text(200, <<<<"{", "\"users\"", ":", "[">>>>),      \* cut off: not JSON
      Refused }

Cell1_Get == \E r \in PersonalResponses : Cell1_GetWith(r)

Cell5_Get ==
    \E r \in IF pc = "cell5" THEN ReferenceResponses(FetchOrder[Len(opensnp) + 1]) ELSE {} :
        Cell5_GetWith(r)

\* The kernel is fresh: the member's data list has been obtained, nothing is bound.
Init ==
    /\ pc = "cell1"
    /\ exc = "none"
    /\ out = <<>>
    /\ user \in UserData
    /\ gets = <<>>
    /\ resp = <<>>
    /\ file_url_23andme = None
    /\ ExtractorUnset
    /\ IndexUnset
    /\ ReportUnset

Next ==
    \/ Cell1_Find
    \/ Cell1_Get
    \/ Cell3_Start
    \/ Cell3_Line
    \/ Cell3_Finish
    \/ Cell5_Get
    \/ Cell7_Maps
    \/ Cell7_Join
    \/ Cell8_Start
    \/ Cell8_Tally
    \/ Cell8_Report

Spec == Init /\ [][Next]_vars

-----------------------------------------------------------------------------
(* Properties of the Genotype Extractor *)

\* the identifiers in the order of the components of a GenotypeTuple
TupleOrder == <<rs12203592, rs12913832, rs16891982>>

IsRecordOf(line, id) == \E g \in Genos : line = Record(id, g)

\* the lines of f that are records of id
Occ(f, id) == {n \in 1..Len(f) : IsRecordOf(f[n], id)}

\* the genotype field of a record line
GenoOf(line) == line[7]

LastGeno(f, id) == GenoOf(f[CHOOSE n \in Occ(f, id) : \A m \in Occ(f, id) : m <= n])

\* the non-comment lines of f on which id is the first field
Mentions(f, id) == {n \in 1..Len(f) : Head(f[n]) = id}

\* every line decodes, and every line that starts with a target identifier is a
\* record of four fields
WellFormed(f) ==
    \A n \in 1..Len(f) :
        /\ Decodable(f[n])
        /\ \A id \in Targets : n \in Mentions(f, id) => IsRecordOf(f[n], id)

BeginsWithMarker(line) == Head(line) = HASH

RECURSIVE WithoutComments(_)
WithoutComments(f) ==
    IF f = <<>> THEN <<>>
    ELSE IF BeginsWithMarker(Head(f)) THEN WithoutComments(Tail(f))
    ELSE <<Head(f)>> \o WithoutComments(Tail(f))

ExtractorRan == pc \in {"cell5", "error"}
ExtractorDone == pc = "cell5"

\* f with the lines a and b exchanged; every permutation of the lines is a
\* sequence of such exchanges
Exchanged(f, a, b) ==
    [n \in 1..Len(f) |-> IF n = a THEN f[b] ELSE IF n = b THEN f[a] ELSE f[n]]

\* C10: when a target identifier has more than one record in the file, the value
\* extracted for it is the genotype of its last record in file order.
C10_LastOccurrenceWins ==
    ExtractorDone =>
        \A k \in 1..3 :
            Cardinality(Occ(file_23andme, TupleOrder[k])) > 1 =>
                /\ DictGet(snps, TupleOrder[k]) = Some(LastGeno(file_23andme, TupleOrder[k]))
                /\ your_genotype[k] = LastGeno(file_23andme, TupleOrder[k])

\* a file where rs12913832 has two records with different genotypes, the last one
\* followed by the record of another identifier
C10_Witness ==
    /\ ExtractorDone
    /\ \E a, b, c \in 1..Len(file_23andme) :
          /\ a < b /\ b < c
          /\ Occ(file_23andme, rs12913832) = {a, b}
          /\ GenoOf(file_23andme[a]) # GenoOf(file_23andme[b])
          /\ c \in Occ(file_23andme, rs12203592)
          /\ your_genotype[2] = GenoOf(file_23andme[b])

Absent(f) == {id \in Targets : Mentions(f, id) = {}}

AllPresent(f) == \A id \in Targets : Occ(f, id) # {}

\* all records of one identifier give the same genotype
Unambiguous(f) ==
    \A id \in Targets : \A a, b \in Occ(f, id) : GenoOf(f[a]) = GenoOf(f[b])

ExtractTuple(f) == GenotypeTuple(RunLines(InitialSnps, f, 1).snps)

\* C6 as stated: whenever the file holds a well-formed record of each of the
\* three target identifiers, extraction ends with the tuple of their genotypes,
\* none unknown, and the file with two lines exchanged gives the same tuple.
C6_AllPresent_AsStated ==
    (ExtractorRan /\ AllPresent(file_23andme)) =>
        /\ ExtractorDone
        /\ \A k \in 1..3 :
              /\ \E n \in Occ(file_23andme, TupleOrder[k]) :
                    your_genotype[k] = GenoOf(file_23andme[n])
              /\ Shown(snps, TupleOrder[k]) # "Unknown"
        /\ \A a, b \in 1..Len(file_23andme) :
              ExtractTuple(Exchanged(file_23andme, a, b)) = your_genotype

\* C6 amended: on a well-formed file in which each target identifier has a record
\* and all records of one identifier give the same genotype, extraction ends with
\* (genotype of rs12203592, genotype of rs12913832, genotype of rs16891982), no
\* component is unknown, and the file with two lines exchanged (which is again
\* such a file) gives the same tuple, hence so does every permutation.
C6_AllPresentUnambiguous ==
    (ExtractorRan /\ WellFormed(file_23andme) /\ AllPresent(file_23andme)
        /\ Unambiguous(file_23andme)) =>
        /\ ExtractorDone
        /\ \A k \in 1..3 :
              /\ \A n \in Occ(file_23andme, TupleOrder[k]) :
                    your_genotype[k] = GenoOf(file_23andme[n])
              /\ your_genotype[k] # "None"
              /\ Shown(snps, TupleOrder[k]) = your_genotype[k]
        /\ \A a, b \in 1..Len(file_23andme) :
              ExtractTuple(Exchanged(file_23andme, a, b)) = your_genotype

\* the records in the order rs12913832, rs16891982, rs12203592, after a comment,
\* with three different positions holding two different genotypes
C6_Witness ==
    /\ ExtractorDone
    /\ Len(file_23andme) = 4
    /\ BeginsWithMarker(file_23andme[1])
    /\ file_23andme[2] = Record(rs12913832, "AG")
    /\ file_23andme[3] = Record(rs16891982, "GG")
    /\ file_23andme[4] = Record(rs12203592, "GG")
    /\ your_genotype = <<"GG", "AG", "GG">>

-----------------------------------------------------------------------------
(* Properties of the Distribution Reporter *)

ReportRan == pc \in {"done", "error"}
ReportDone == pc = "done"

\* the bucket the reporter looked up
Bucket == DictGet(genotypes_to_color, your_genotype)

FirstSeen(b, color) == CHOOSE n \in 1..Len(b) : b[n] = color /\ \A m \in 1..(n - 1) : b[m] # color
Times(b, color) == Cardinality({n \in 1..Len(b) : b[n] = color})

\* C1: with a caller tuple that is not a key of the index, the report step ends
\* normally with an empty distribution and a total match count of 0.
C1_AbsentTupleEmptyReport ==
    (ReportRan /\ ~DictHas(genotypes_to_color, your_genotype)) =>
        /\ ReportDone
        /\ exc = "none"
        /\ color_count_percentages = <<>>
        /\ color_count_sum = 0

\* C8: the distribution is in order of non-increasing count, and of two labels
\* of equal count the one first met in the bucket comes first.
C8_SortedStable ==
    ReportDone =>
        /\ Len(color_count_percentages) = Len(color_counts)
        /\ {color_counts[n][1] : n \in 1..Len(color_counts)} = {Bucket[n] : n \in 1..Len(Bucket)}
        /\ \A a, b \in 1..Len(color_counts) :
              /\ color_count_percentages[a][1] = color_counts[a][1]
              /\ a < b =>
                   \/ color_counts[a][2] > color_counts[b][2]
                   \/ /\ color_counts[a][2] = color_counts[b][2]
                      /\ FirstSeen(Bucket, color_counts[a][1]) < FirstSeen(Bucket, color_counts[b][1])

\* the bucket green, blue, blue, brown: blue first, then green before brown
C8_Witness ==
    /\ ReportDone
    /\ Bucket = <<"green", "blue", "blue", "brown">>
    /\ color_counts = <<<<"blue", 2>>, <<"green", 1>>, <<"brown", 1>>>>

RECURSIVE SumNumerators(_)
SumNumerators(d) == IF d = <<>> THEN 0 ELSE Head(d)[2][1] + SumNumerators(Tail(d))

\* C9: the counts sum to the total match count, which is the number of labels in
\* the bucket; each share is count / total, lies in (0, 1], and the shares sum to 1.
C9_SharesSumToOne ==
    ReportDone =>
        /\ color_count_sum = Len(Bucket)
        /\ SumCounts(color_counts) = color_count_sum
        /\ \A n \in 1..Len(color_counts) :
              /\ color_counts[n][2] = Times(Bucket, color_counts[n][1])
              /\ color_count_percentages[n][2] = <<color_counts[n][2], color_count_sum>>
              /\ 0 < color_count_percentages[n][2][1]
              /\ color_count_percentages[n][2][1] <= color_count_percentages[n][2][2]
        /\ \A n \in 1..Len(color_count_percentages) :
              color_count_percentages[n][2][2] = color_count_sum
        /\ SumNumerators(color_count_percentages) = color_count_sum
        /\ color_count_sum > 0

\* a bucket of three labels, two of them the same
C9_Witness ==
    /\ ReportDone
    /\ Bucket = <<"brown", "blue", "brown">>
    /\ color_count_percentages = <<<<"brown", <<2, 3>>>>, <<"blue", <<1, 3>>>>>>
    /\ color_count_sum = 3

-----------------------------------------------------------------------------
(* Properties of the Genotype Index Builder *)

EyeItems == DictGet(opensnp, "eyecolors").items
RsItems(k) == DictGet(opensnp, RsOrder[k]).items

\* the subject has an eye-color record with this label, once lower-cased
HasEyeLabel(u, label) ==
    \E n \in 1..Len(EyeItems) : EyeItems[n].user_id = u /\ Lower(EyeItems[n].variation) = label

\* the subject has, in the k-th genotype dataset, a record with a non-empty list
\* of observations of which g is the first
HasFirstGeno(k, u, g) ==
    \E n \in 1..Len(RsItems(k)) :
        /\ RsItems(k)[n].id = u
        /\ RsItems(k)[n].genotypes # <<>>
        /\ RsItems(k)[n].genotypes[1] = g

InAllFour(u) ==
    /\ \E label \in {Lower(EyeItems[n].variation) : n \in 1..Len(EyeItems)} : HasEyeLabel(u, label)
    /\ \A k \in 1..3 : \E n \in 1..Len(RsItems(k)) :
           RsItems(k)[n].id = u /\ RsItems(k)[n].genotypes # <<>>

RECURSIVE CountLabels(_)
CountLabels(index) == IF index = <<>> THEN 0 ELSE Len(Head(index)[2]) + CountLabels(Tail(index))

IndexBuilding == pc \in {"cell7_loop", "cell8"}

\* C5: during and after the join, every label in a bucket is the eye color of a
\* subject that has an eye-color record and a non-empty list of observations in
\* each of the three genotype datasets, the bucket's key being its first
\* observations; the subjects joined are distinct and each gives one label, so a
\* subject missing from one of the four sources gives none.
C5_OnlySubjectsInAllFour ==
    IndexBuilding =>
        /\ \A n \in 1..Len(joint_uids) : InAllFour(joint_uids[n])
        /\ \A a, b \in 1..Len(joint_uids) : joint_uids[a] = joint_uids[b] => a = b
        /\ CountLabels(genotypes_to_color) = jpos
        /\ \A n \in 1..Len(genotypes_to_color) :
              \A m \in 1..Len(genotypes_to_color[n][2]) :
                 \E a \in 1..jpos :
                    /\ InAllFour(joint_uids[a])
                    /\ HasEyeLabel(joint_uids[a], genotypes_to_color[n][2][m])
                    /\ \A k \in 1..3 :
                          HasFirstGeno(k, joint_uids[a], genotypes_to_color[n][1][k])

\* subject 1 is in all four datasets and joined; subject 2 has an eye color but an
\* empty list of observations for rs16891982, and no bucket holds its label
C5_Witness ==
    /\ pc = "cell8"
    /\ InAllFour(1)
    /\ ~InAllFour(2)
    /\ HasEyeLabel(2, "blue")
    /\ \E n \in 1..Len(RsItems(3)) : RsItems(3)[n].id = 2 /\ RsItems(3)[n].genotypes = <<>>
    /\ genotypes_to_color = <<<<KeyA, <<"brown">>>>>>

-----------------------------------------------------------------------------
(* Properties of the whole run *)

Shows(message) == \E n \in 1..Len(out) : out[n] = message

\* C2: when no entry of the data list qualifies, the instructional message is
\* shown and the run then stops without an error and without a download.
C2_NoDataStopsCleanly ==
    (pc # "cell1" /\ \A n \in 1..Len(user) : ~Qualifies(user[n])) =>
        /\ Shows(SorryMessage)
        /\ pc # "error"
        /\ exc = "none"
        /\ gets = <<>>

\* the fetch of this name was made and failed: no connection, an error status,
\* or, for a reference dataset, content that is not the JSON expected
FetchFailed(n) ==
    \/ resp[n][2].conn = "refused"
    \/ resp[n][2].status # 200
    \/ resp[n][1] # "personal" /\ ~resp[n][2].is_json

AllFourFetched ==
    /\ Len(opensnp) = 4
    /\ \A n \in 1..Len(resp) : resp[n][1] # "personal" => ~FetchFailed(n)

\* C4: a failed fetch ends the run in a retrieval error; index building starts
\* only after four successful reference fetches; the extractor never parses the
\* content of a failed fetch; no fetch is made twice.
C4_FailFast ==
    /\ (\E n \in 1..Len(resp) : FetchFailed(n)) =>
           pc = "error" /\ exc \in {"ConnectionError", "JSONDecodeError"}
    /\ pc \in {"cell7_loop", "cell8", "cell8_loop", "done"} => AllFourFetched
    /\ pc \in {"cell3", "cell3_loop"} => \A n \in 1..Len(resp) : ~FetchFailed(n)
    /\ \A a, b \in 1..Len(gets) : gets[a] = gets[b] => a = b

====
